---- MODULE Spec2Model ----
(***************************************************************************)
(* Model of demos/multi-qpu/observe_mpi.py: one process running the        *)
(* script top to bottom.  Real numbers are fixed-point integers with       *)
(* eight decimals (the value v stands for v / Scale).                      *)
(***************************************************************************)
EXTENDS Integers, Sequences, FiniteSets, TLC

VARIABLES pc, mpiInitialized, initCount, finalizeCount, target, numQpus,
          kernel, hamiltonian, want_expectation_value, result_no_shots,
          expectation_value_no_shots, exitCode, deviation

vars == <<pc, mpiInitialized, initCount, finalizeCount, target, numQpus,
          kernel, hamiltonian, want_expectation_value, result_no_shots,
          expectation_value_no_shots, exitCode, deviation>>

(* ---------------- bounds of the model ---------------- *)

\* num_qpus() is whatever the machine offers; the model tries 1..MaxQpus.
MaxQpus == 4

\* Number of terms kept of the sine and cosine series.
TaylorTerms == 6

(* ---------------- fixed-point arithmetic ---------------- *)

Half == 10^4
Scale == Half * Half

Abs(x) == IF x < 0 THEN -x ELSE x

\* a * b / Scale on 32-bit integers, by halves so that no product overflows.
MulFix(a, b) ==
    LET x == Abs(a)
        y == Abs(b)
        xh == x \div Half
        xl == x % Half
        yh == y \div Half
        yl == y % Half
        m == xh * yh + ((xh * yl + xl * yh) \div Half) + ((xl * yl) \div Scale)
    IN  IF (a < 0) = (b < 0) THEN m ELSE -m

\* sum of n terms of a power series: next term = -term * x^2 / (k (k+1))
RECURSIVE Series(_, _, _, _)
Series(x2, term, k, n) ==
    IF n = 0 THEN 0
    ELSE term + Series(x2, -(MulFix(term, x2) \div (k * (k + 1))), k + 2, n - 1)

Sin(x) == Series(MulFix(x, x), x, 2, TaylorTerms)
Cos(x) == Series(MulFix(x, x), Scale, 1, TaylorTerms)

(* ---------------- the kernel: a real state vector over two qubits ---------------- *)

\* basis index i holds qubit q in bit q (index = q0 + 2 * q1)
NumQubits == 2
Basis == 0 .. (2^NumQubits - 1)
Bit(i, q) == (i \div (2^q)) % 2
Flip(i, q) == IF Bit(i, q) = 0 THEN i + 2^q ELSE i - 2^q

\* qalloc: every qubit in |0>
ZeroState == [i \in Basis |-> IF i = 0 THEN Scale ELSE 0]

\* kernel.x(q)
ApplyX(psi, q) == [i \in Basis |-> psi[Flip(i, q)]]

\* kernel.ry(theta, q): the rotation [[cos t/2, -sin t/2], [sin t/2, cos t/2]]
ApplyRY(psi, th, q) ==
    LET c == Cos(th \div 2)
        s == Sin(th \div 2)
    IN  [i \in Basis |->
            IF Bit(i, q) = 0
            THEN MulFix(c, psi[i]) - MulFix(s, psi[Flip(i, q)])
            ELSE MulFix(s, psi[Flip(i, q)]) + MulFix(c, psi[i])]

\* the same gate with the roles of its two qubits exchanged
ApplyCXSwapped(psi, control, tgt) ==
    [i \in Basis |-> IF Bit(i, tgt) = 1 THEN psi[Flip(i, control)] ELSE psi[i]]

\* kernel.cx(control, tgt)
ApplyCX(psi, control, tgt) ==
    [i \in Basis |-> IF Bit(i, control) = 1 THEN psi[Flip(i, tgt)] ELSE psi[i]]

ApplyGate(psi, g, th) ==
    CASE g.op = "x" -> ApplyX(psi, g.q)
      [] g.op = "ry" -> ApplyRY(psi, th, g.q)
      [] g.op = "cx" -> ApplyCX(psi, g.c, g.q)
      [] OTHER -> psi

\* the state the kernel prepares from |00> with its parameter bound to th
RECURSIVE RunKernel(_, _, _)
RunKernel(gates, th, psi) ==
    IF gates = <<>> THEN psi
    ELSE RunKernel(Tail(gates), th, ApplyGate(psi, Head(gates), th))

(* ---------------- the spin Hamiltonian ---------------- *)

\* a spin operator is a sequence of terms [coef, w], w the Pauli letter per qubit
Word(p, q) == [k \in 0 .. (NumQubits - 1) |-> IF k = q THEN p ELSE "I"]
SpinX(q) == << [coef |-> Scale, w |-> Word("X", q)] >>
SpinY(q) == << [coef |-> Scale, w |-> Word("Y", q)] >>
SpinZ(q) == << [coef |-> Scale, w |-> Word("Z", q)] >>
Identity(c) == << [coef |-> c, w |-> Word("I", 0)] >>

\* float * SpinOperator
ScalarMul(c, A) == [n \in 1 .. Len(A) |-> [coef |-> MulFix(c, A[n].coef), w |-> A[n].w]]
\* SpinOperator * SpinOperator, for one-term factors acting on different qubits
OpMul(A, B) ==
    << [coef |-> MulFix(A[1].coef, B[1].coef),
        w |-> [k \in 0 .. (NumQubits - 1) |-> IF A[1].w[k] = "I" THEN B[1].w[k] ELSE A[1].w[k]]] >>
OpNeg(A) == [n \in 1 .. Len(A) |-> [coef |-> -A[n].coef, w |-> A[n].w]]
OpAdd(A, B) == A \o B
OpSub(A, B) == A \o OpNeg(B)

\* 5.907 - 2.1433 X0 X1 - 2.1433 Y0 Y1 + .21829 Z0 - 6.125 Z1
Hamiltonian ==
    OpSub(OpAdd(OpSub(OpSub(Identity(590700000),
                            OpMul(ScalarMul(214330000, SpinX(0)), SpinX(1))),
                      OpMul(ScalarMul(214330000, SpinY(0)), SpinY(1))),
                ScalarMul(21829000, SpinZ(0))),
          ScalarMul(612500000, SpinZ(1)))

(* ---------------- cudaq.observe: <psi| H |psi> ---------------- *)

\* A Pauli word maps |i> to i^k |j>: j flips the X and Y qubits, k counts the phase.
Image(w, i) ==
    LET a == IF w[0] \in {"X", "Y"} THEN Flip(i, 0) ELSE i
    IN  IF w[1] \in {"X", "Y"} THEN Flip(a, 1) ELSE a
PhaseOf(p, b) ==
    CASE p = "Y" -> IF b = 0 THEN 1 ELSE 3
      [] p = "Z" -> IF b = 0 THEN 0 ELSE 2
      [] OTHER -> 0
Phase(w, i) == (PhaseOf(w[0], Bit(i, 0)) + PhaseOf(w[1], Bit(i, 1))) % 4
RealPart(k) == CASE k = 0 -> 1 [] k = 2 -> -1 [] OTHER -> 0

RECURSIVE SumBasis(_, _, _)
SumBasis(psi, w, i) ==
    IF i > 2^NumQubits - 1 THEN 0
    ELSE RealPart(Phase(w, i)) * MulFix(psi[Image(w, i)], psi[i]) + SumBasis(psi, w, i + 1)

\* expectation of one Pauli word in the (real) state psi
TermExpectation(psi, w) == SumBasis(psi, w, 0)

RECURSIVE SumTerms(_, _, _)
SumTerms(psi, H, n) ==
    IF n > Len(H) THEN 0
    ELSE MulFix(H[n].coef, TermExpectation(psi, H[n].w)) + SumTerms(psi, H, n + 1)

\* observe(kernel, H, th).expectation(): sum over the terms of coef * <term>
Expectation(gates, H, th) == SumTerms(RunKernel(gates, th, ZeroState), H, 1)

(* ---------------- numpy.isclose ---------------- *)

\* abs(a - b) <= atol + rtol * abs(b), with rtol = 1e-05 and atol = 1e-08;
\* a difference of 20000 units (2e-4) or more is beyond any tolerance the
\* values of the model reach and is decided without the multiplication.
IsClose(a, b) ==
    IF Abs(a - b) >= 20000 THEN FALSE
    ELSE Abs(a - b) * 10^5 <= 10^5 + Abs(b)

(* ---------------- the script ---------------- *)

\* theta = 0.59, the argument of observe
Theta == 59000000

\* -1.7487948611472093
WantExpectationValue == -174879486

\* What the backend adds to the exact expectation: nothing, rounding of the
\* simulator's arithmetic, or an outright wrong answer.
Deviation == {0, 1, -1, 1700, -1700, 1800, -1800, 10^6, -(10^6)}

\* an unbound Python name is <<>>, a bound one <<value>>
Unbound == <<>>

Init ==
    /\ pc = "mpi_initialize"
    /\ mpiInitialized = FALSE
    /\ initCount = 0
    /\ finalizeCount = 0
    /\ target = Unbound
    /\ numQpus = Unbound
    /\ kernel = Unbound
    /\ hamiltonian = Unbound
    /\ want_expectation_value = Unbound
    /\ result_no_shots = Unbound
    /\ expectation_value_no_shots = Unbound
    /\ exitCode = Unbound
    /\ deviation = Unbound

\* line 5: cudaq.mpi.initialize()
MpiInitialize ==
    /\ pc = "mpi_initialize"
    /\ mpiInitialized' = TRUE
    /\ initCount' = initCount + 1
    /\ pc' = "set_target"
    /\ UNCHANGED <<finalizeCount, target, numQpus, kernel, hamiltonian,
                   want_expectation_value, result_no_shots,
                   expectation_value_no_shots, exitCode,
                   deviation>>

\* line 6: cudaq.set_target('nvidia-mqpu')
SetTarget ==
    /\ pc = "set_target"
    /\ target' = <<"nvidia-mqpu">>
    /\ pc' = "get_target"
    /\ UNCHANGED <<mpiInitialized, initCount, finalizeCount, numQpus, kernel,
                   hamiltonian, want_expectation_value, result_no_shots,
                   expectation_value_no_shots, exitCode,
                   deviation>>

\* lines 8-9: numQpus = cudaq.get_target().num_qpus()
GetNumQpus ==
    /\ pc = "get_target"
    /\ \E n \in 1 .. MaxQpus : numQpus' = <<n>>
    /\ pc' = "make_kernel"
    /\ UNCHANGED <<mpiInitialized, initCount, finalizeCount, target, kernel,
                   hamiltonian, want_expectation_value, result_no_shots,
                   expectation_value_no_shots, exitCode,
                   deviation>>

\* the kernel builder appends gate g to the kernel's gate list
AddGate(k, g) == <<k[1] \o <<g>>>>

\* lines 11-12: kernel, theta = cudaq.make_kernel(float); qreg = kernel.qalloc(2)
MakeKernel ==
    /\ pc = "make_kernel"
    /\ kernel' = << <<>> >>
    /\ pc' = "x"
    /\ UNCHANGED <<mpiInitialized, initCount, finalizeCount, target, numQpus,
                   hamiltonian, want_expectation_value, result_no_shots,
                   expectation_value_no_shots, exitCode,
                   deviation>>

\* line 13: kernel.x(qreg[0])
KernelX ==
    /\ pc = "x"
    /\ kernel' = AddGate(kernel, [op |-> "x", q |-> 0])
    /\ pc' = "ry"
    /\ UNCHANGED <<mpiInitialized, initCount, finalizeCount, target, numQpus,
                   hamiltonian, want_expectation_value, result_no_shots,
                   expectation_value_no_shots, exitCode,
                   deviation>>

\* line 14: kernel.ry(theta, qreg[1])
KernelRY ==
    /\ pc = "ry"
    /\ kernel' = AddGate(kernel, [op |-> "ry", q |-> 1])
    /\ pc' = "cx"
    /\ UNCHANGED <<mpiInitialized, initCount, finalizeCount, target, numQpus,
                   hamiltonian, want_expectation_value, result_no_shots,
                   expectation_value_no_shots, exitCode,
                   deviation>>

\* line 15: kernel.cx(qreg[1], qreg[0])
KernelCX ==
    /\ pc = "cx"
    /\ kernel' = AddGate(kernel, [op |-> "cx", c |-> 1, q |-> 0])
    /\ pc' = "hamiltonian"
    /\ UNCHANGED <<mpiInitialized, initCount, finalizeCount, target, numQpus,
                   hamiltonian, want_expectation_value, result_no_shots,
                   expectation_value_no_shots, exitCode,
                   deviation>>

\* lines 17-21: hamiltonian = ...; want_expectation_value = ...
DefineHamiltonian ==
    /\ pc = "hamiltonian"
    /\ hamiltonian' = <<Hamiltonian>>
    /\ want_expectation_value' = <<WantExpectationValue>>
    /\ pc' = "observe"
    /\ UNCHANGED <<mpiInitialized, initCount, finalizeCount, target, numQpus,
                   kernel, result_no_shots, expectation_value_no_shots, exitCode,
                   deviation>>

\* lines 25-28: result_no_shots = cudaq.observe(kernel, hamiltonian, 0.59, ...)
Observe ==
    /\ pc = "observe"
    /\ \E d \in Deviation :
          /\ result_no_shots' = <<Expectation(kernel[1], hamiltonian[1], Theta) + d>>
          /\ deviation' = <<d>>
    /\ pc' = "expectation_z"
    /\ UNCHANGED <<mpiInitialized, initCount, finalizeCount, target, numQpus,
                   kernel, hamiltonian, want_expectation_value,
                   expectation_value_no_shots, exitCode>>

\* lines 25-28, observe raises: the exception is not caught, the traceback is
\* printed and the interpreter exits with status 1
ObserveRaises ==
    /\ pc = "observe"
    /\ pc' = "exited"
    /\ exitCode' = <<1>>
    /\ UNCHANGED <<mpiInitialized, initCount, finalizeCount, target, numQpus,
                   kernel, hamiltonian, want_expectation_value, result_no_shots,
                   expectation_value_no_shots,
                   deviation>>

\* line 29: expectation_value_no_shots = result_no_shots.expectation_z()
ExpectationZ ==
    /\ pc = "expectation_z"
    /\ expectation_value_no_shots' = result_no_shots
    /\ pc' = "assert"
    /\ UNCHANGED <<mpiInitialized, initCount, finalizeCount, target, numQpus,
                   kernel, hamiltonian, want_expectation_value, result_no_shots,
                   exitCode,
                   deviation>>

\* line 30 with the assert statement having no effect
AssertIgnored ==
    /\ pc = "assert"
    /\ pc' = "mpi_finalize"
    /\ UNCHANGED <<mpiInitialized, initCount, finalizeCount, target, numQpus,
                   kernel, hamiltonian, want_expectation_value, result_no_shots,
                   expectation_value_no_shots, exitCode, deviation>>

\* line 30: assert np.isclose(want_expectation_value, expectation_value_no_shots)
\* a failed assert raises AssertionError, which nothing catches: exit status 1
AssertIsClose ==
    /\ pc = "assert"
    /\ IF IsClose(want_expectation_value[1], expectation_value_no_shots[1])
       THEN pc' = "mpi_finalize" /\ UNCHANGED exitCode
       ELSE pc' = "exited" /\ exitCode' = <<1>>
    /\ UNCHANGED <<mpiInitialized, initCount, finalizeCount, target, numQpus,
                   kernel, hamiltonian, want_expectation_value, result_no_shots,
                   expectation_value_no_shots,
                   deviation>>

\* line 32: cudaq.mpi.finalize()
MpiFinalize ==
    /\ pc = "mpi_finalize"
    /\ mpiInitialized' = FALSE
    /\ finalizeCount' = finalizeCount + 1
    /\ pc' = "end"
    /\ UNCHANGED <<initCount, target, numQpus, kernel, hamiltonian,
                   want_expectation_value, result_no_shots,
                   expectation_value_no_shots, exitCode,
                   deviation>>

\* the end of the file: the interpreter exits with status 0
ScriptEnd ==
    /\ pc = "end"
    /\ pc' = "exited"
    /\ exitCode' = <<0>>
    /\ UNCHANGED <<mpiInitialized, initCount, finalizeCount, target, numQpus,
                   kernel, hamiltonian, want_expectation_value, result_no_shots,
                   expectation_value_no_shots,
                   deviation>>

Next ==
    \/ MpiInitialize
    \/ SetTarget
    \/ GetNumQpus
    \/ MakeKernel
    \/ KernelX
    \/ KernelRY
    \/ KernelCX
    \/ DefineHamiltonian
    \/ Observe
    \/ ObserveRaises
    \/ ExpectationZ
    \/ AssertIsClose
    \/ MpiFinalize
    \/ ScriptEnd

Spec == Init /\ [][Next]_vars

(* ---------------- properties ---------------- *)

Exited == pc = "exited"
Observed == result_no_shots # Unbound
Matches == IsClose(want_expectation_value[1], result_no_shots[1])

\* C4: in every execution, the failing assertion included, the MPI handle is
\* initialized once and finalized exactly once, and observe runs between the
\* two: at exit both counters are 1, and observe runs on an initialized handle.
C4_InitializedOnceFinalizedOnce ==
    /\ initCount <= 1
    /\ finalizeCount <= 1
    /\ (pc \in {"observe", "expectation_z"} => mpiInitialized /\ finalizeCount = 0)
    /\ (Exited => initCount = 1 /\ finalizeCount = 1)

\* C7: the process exits with a non-zero status when the expectation value it
\* obtained does not match the reference value within the tolerance of
\* isclose, and it exits with status 0 only after the match check has passed.
C7_ExitStatus ==
    Exited =>
        /\ (Observed /\ ~Matches => exitCode # <<0>>)
        /\ (exitCode = <<0>> => Observed /\ Matches)

\* C7 witness: the process has exited on a result that does not match.
C7_MismatchExited == Exited /\ Observed /\ ~Matches /\ exitCode = <<1>>

\* the tolerance of the concrete scenario, 1e-6
ScenarioTolerance == Scale \div 10^6

\* C8: for the circuit X(q0); RY(0.59, q1); CX(q1, q0) and the five-term
\* Hamiltonian of the script, the exact evaluation (no deviation added by the
\* backend) returns a value close to -1.7487948611472093: it passes isclose
\* and lies within 1e-6 of the reference.
C8_ReferenceValue ==
    (Observed /\ deviation = <<0>>) =>
        /\ Matches
        /\ Abs(result_no_shots[1] - WantExpectationValue) <= ScenarioTolerance

\* C8 witness: observe has returned the exact value for the whole script's
\* kernel (three gates) and Hamiltonian (five terms).
C8_ExactObserved ==
    /\ Observed
    /\ deviation = <<0>>
    /\ Len(kernel[1]) = 3
    /\ Len(hamiltonian[1]) = 5

====
